---- MODULE Spec2Model ----
\* Resume extraction service (src/main3.py): the two HTTP handlers, the
\* structuring step and the accuracy scoring, as a state machine.
\*
\* Representation.
\*   A Python str is a sequence of atoms; an atom is either one whitespace
\*   character (" ", "\n") or an opaque run of non-whitespace characters
\*   ("Jane", "u1").  The empty str is << >>.
\*   A JSON value is a tagged record: JNull, JStr(s), JInt(n), JBool(b),
\*   JList(items), JDict(d) with d a function from keys to JSON values.
EXTENDS Integers, Sequences, FiniteSets, Bags, TLC

VARIABLES
    extraction_data_storage, \* main3.py:33   extraction_id -> stored record
    temp_files,              \* paths that exist in TEMP_DIR (main3.py:30)
    open_handles,            \* per path: extract requests suspended at line 206
    saved_resumes,           \* bag of the artifacts written to saved_resumes/
    uuid_counter,            \* number of uuid4() values drawn so far
    response,                \* the response of the request answered last
    extracted_data,          \* argument of calculate_extraction_accuracy (SpecAcc)
    accuracy_metrics,        \* its result (SpecAcc)
    session_state,           \* app2.py:9-15  st.session_state of the client session
    page,                    \* what the client's page shows after the last run
    resumes,                 \* bag of the form_data files written to resumes/ (app2.py:39-40)
    rejected,                \* history: the extraction_ids the user has rejected
    pending_saves            \* save requests received and not yet handled, per id

\* The state of the service and of its requests.
service_vars == <<extraction_data_storage, temp_files, open_handles, saved_resumes,
                  uuid_counter, response>>

\* The state of the client session.
client_vars == <<session_state, page, resumes, rejected>>

vars == <<extraction_data_storage, temp_files, open_handles, saved_resumes,
          uuid_counter, response, extracted_data, accuracy_metrics,
          session_state, page, resumes, rejected, pending_saves>>

-----------------------------------------------------------------------------
\* Bounds of the model.

\* uuid4() is drawn at most this many times.
MaxUuid == 2
\* Extract requests suspended at `await file.read()` at the same time.
MaxInFlight == 1
\* Artifacts written to saved_resumes/.
MaxSaved == 2
\* Elements of a JSON list given to the accuracy scoring.
MaxListLen == 2
\* Save requests received and not yet handled.
MaxPending == 2
\* Extract requests suspended together, where uploads run side by side.
MaxUploads == 2

-----------------------------------------------------------------------------
\* JSON values and the Python operations the code applies to them.

JNull == [t |-> "null"]
JStr(s) == [t |-> "str", s |-> s]
JInt(n) == [t |-> "int", n |-> n]
JBool(b) == [t |-> "bool", b |-> b]
JList(items) == [t |-> "list", items |-> items]
JDict(d) == [t |-> "dict", d |-> d]

EmptyDict == [k \in {} |-> JNull]

\* Python truth value of a JSON value (`not item`, `if full_name`, `a or b`).
Truthy(v) ==
    CASE v.t = "null" -> FALSE
      [] v.t = "str" -> v.s # << >>
      [] v.t = "int" -> v.n # 0
      [] v.t = "bool" -> v.b
      [] v.t = "list" -> v.items # << >>
      [] v.t = "dict" -> DOMAIN v.d # {}

\* dict.get(key, default) on the mapping of a JSON object.
dict_get(d, key, default) == IF key \in DOMAIN d THEN d[key] ELSE default

-----------------------------------------------------------------------------
\* calculate_extraction_accuracy (main3.py:140-193).

expected_fields ==
    << "full_name", "current_designation", "contact_info.email",
       "contact_info.phone", "contact_info.linkedin_url", "address",
       "skills.primary_skills", "skills.secondary_skills",
       "total_experience.years", "education" >>

\* field.split('.') for the checklist paths.
split_dot(field) ==
    CASE field = "contact_info.email" -> << "contact_info", "email" >>
      [] field = "contact_info.phone" -> << "contact_info", "phone" >>
      [] field = "contact_info.linkedin_url" -> << "contact_info", "linkedin_url" >>
      [] field = "skills.primary_skills" -> << "skills", "primary_skills" >>
      [] field = "skills.secondary_skills" -> << "skills", "secondary_skills" >>
      [] field = "total_experience.years" -> << "total_experience", "years" >>
      [] OTHER -> << field >>

\* Lines 160-167: the value the path resolves to, None (JNull) when absent.
resolve_field(data, field) ==
    LET parts == split_dot(field) IN
    IF Len(parts) = 1 THEN dict_get(data.d, parts[1], JNull)
    ELSE IF Len(parts) = 2 THEN
        LET parent == dict_get(data.d, parts[1], JDict(EmptyDict)) IN
        IF parent.t = "dict" THEN dict_get(parent.d, parts[2], JNull) ELSE JNull
    ELSE JNull

\* A plausible slip: emptiness taken as Python falsiness (`not value`).
is_empty_falsy(value) == ~Truthy(value)

\* Lines 170-176.
is_empty(value) ==
    \/ value.t = "null"
    \/ (value.t = "str" /\ value.s = << >>)
    \/ (value.t = "list" /\ value.items = << >>)
    \/ (value.t = "dict" /\ DOMAIN value.d = {})
    \/ (value.t = "list" /\ \A i \in 1..Len(value.items) : ~Truthy(value.items[i]))

\* round(num / den * 100, 2), in hundredths of a percent.
round_rate(num, den) == (2 * num * 100 * 100 + den) \div (2 * den)

\* Lines 159-183: the loop over the checklist, from field i on.
RECURSIVE accuracy_loop(_, _, _)
accuracy_loop(data, i, acc) ==
    IF i > Len(expected_fields) THEN acc
    ELSE
        LET field == expected_fields[i]
            empty == is_empty(resolve_field(data, field))
        IN accuracy_loop(data, i + 1,
              [filled_fields |-> acc.filled_fields + (IF empty THEN 0 ELSE 1),
               empty_fields |-> acc.empty_fields + (IF empty THEN 1 ELSE 0),
               field_status |->
                   (field :> (IF empty THEN "empty" ELSE "filled")) @@ acc.field_status])

\* A plausible slip: the empty fields are not counted.
calculate_extraction_accuracy_nocount(data) ==
    LET acc == accuracy_loop(data, 1,
                   [filled_fields |-> 0, empty_fields |-> 0, field_status |-> << >>])
    IN [filled_fields |-> acc.filled_fields,
        empty_fields |-> 0,
        total_fields |-> Len(expected_fields),
        extraction_rate |-> round_rate(acc.filled_fields, Len(expected_fields)),
        field_status |-> acc.field_status]

calculate_extraction_accuracy(data) ==
    LET acc == accuracy_loop(data, 1,
                   [filled_fields |-> 0, empty_fields |-> 0, field_status |-> << >>])
        total_fields == Len(expected_fields)
    IN [filled_fields |-> acc.filled_fields,
        empty_fields |-> acc.empty_fields,
        total_fields |-> total_fields,
        extraction_rate |-> round_rate(acc.filled_fields, total_fields),
        field_status |-> acc.field_status]

-----------------------------------------------------------------------------
\* Inputs of the accuracy scoring: structured records as json.loads can
\* return them.  Missing marks a key that is not in its mapping.

Missing == [t |-> "missing"]

SeqsUpTo(S, n) == UNION {[1..k -> S] : k \in 0..n}

ListItems ==
    {JNull, JStr(<< >>), JStr(<<"x">>), JInt(0), JInt(7), JList(<< >>)}

LeafValues ==
    {JNull, JStr(<< >>), JStr(<<"x">>), JInt(0), JInt(7), JBool(FALSE), JBool(TRUE),
     JDict(EmptyDict), JDict([city |-> JStr(<< >>)]), JDict([city |-> JStr(<<"Pune">>)])}
    \cup {JList(xs) : xs \in SeqsUpTo(ListItems, MaxListLen)}

Fields == {expected_fields[i] : i \in 1..Len(expected_fields)}

\* The JSON object whose leaves are leaf[f] for the checklist paths f, a
\* parent mapping being present when one of its leaves is.
BuildRecord(leaf) ==
    LET present == {f \in Fields : leaf[f] # Missing}
        topkeys == {split_dot(f)[1] : f \in present}
        children(k) == {f \in present : Len(split_dot(f)) = 2 /\ split_dot(f)[1] = k}
        child(k, c) == CHOOSE f \in children(k) : split_dot(f)[2] = c
    IN JDict([k \in topkeys |->
                IF k \in present THEN leaf[k]
                ELSE JDict([c \in {split_dot(f)[2] : f \in children(k)} |->
                               leaf[child(k, c)]])])

\* The first k checklist fields hold a typical value, the others are missing.
TypicalLeaf(k) ==
    [f \in Fields |->
        IF \E i \in 1..k : expected_fields[i] = f
        THEN (IF f \in {"contact_info.phone", "skills.primary_skills",
                        "skills.secondary_skills", "education"}
              THEN JList(<<JStr(<<"x">>)>>)
              ELSE IF f = "address" THEN JDict([city |-> JStr(<<"Pune">>)])
              ELSE JStr(<<"x">>))
        ELSE Missing]

ParentKeys == {"contact_info", "skills", "total_experience"}
ParentShapes == {JNull, JStr(<<"x">>), JInt(3), JList(<<JStr(<<"x">>)>>), JDict(EmptyDict)}

AccInputs ==
    {BuildRecord([TypicalLeaf(k) EXCEPT ![f] = v]) :
        k \in 0..Len(expected_fields), f \in Fields, v \in LeafValues \cup {Missing}}
    \cup
    {JDict((p :> shape) @@ BuildRecord(TypicalLeaf(k)).d) :
        k \in 0..Len(expected_fields), p \in ParentKeys, shape \in ParentShapes}

\* Optional values: None is << >>, a value x is << x >>.
None == << >>
Some(x) == << x >>

NoHandles == [linked |-> 0, stale |-> 0]

-----------------------------------------------------------------------------
\* Python str operations on sequences of atoms.

Whitespace == {" ", "\n"}

RECURSIVE lstrip(_)
lstrip(s) == IF s # << >> /\ Head(s) \in Whitespace THEN lstrip(Tail(s)) ELSE s

RECURSIVE rstrip(_)
rstrip(s) ==
    IF s # << >> /\ s[Len(s)] \in Whitespace THEN rstrip(SubSeq(s, 1, Len(s) - 1)) ELSE s

\* str.strip()
strip(s) == rstrip(lstrip(s))

\* sep.join(parts)
RECURSIVE join(_, _)
join(sep, parts) ==
    IF parts = << >> THEN << >>
    ELSE IF Len(parts) = 1 THEN parts[1]
    ELSE parts[1] \o sep \o join(sep, Tail(parts))

\* A plausible slip: full_name.split(' '), which cuts at every single space
\* and at nothing else.
RECURSIVE split_space_from(_, _, _)
split_space_from(s, cur, out) ==
    IF s = << >> THEN Append(out, cur)
    ELSE IF Head(s) = " "
         THEN split_space_from(Tail(s), << >>, Append(out, cur))
         ELSE split_space_from(Tail(s), Append(cur, Head(s)), out)

split_single_space(s) == split_space_from(s, << >>, << >>)

\* str.split(): the maximal runs of non-whitespace atoms.
RECURSIVE split_from(_, _, _)
split_from(s, cur, out) ==
    IF s = << >> THEN (IF cur = << >> THEN out ELSE Append(out, cur))
    ELSE IF Head(s) \in Whitespace
         THEN split_from(Tail(s), << >>, IF cur = << >> THEN out ELSE Append(out, cur))
         ELSE split_from(Tail(s), Append(cur, Head(s)), out)

split(s) == split_from(s, << >>, << >>)

\* str.lower() of a file-name atom.
lower(atom) ==
    CASE atom = ".PDF" -> ".pdf"
      [] atom = ".DOCX" -> ".docx"
      [] atom = "CV" -> "cv"
      [] OTHER -> atom

\* path.lower().endswith(suffix), the suffix being the last atom of the name.
lower_endswith(path, suffix) == path # << >> /\ lower(path[Len(path)]) = suffix

-----------------------------------------------------------------------------
\* Exceptions and the results of the calls that can raise.

Exc(kind, status, msg) == [kind |-> kind, status |-> status, msg |-> msg]
NoExc == Exc("", 0, "")
Raise(e) == [raised |-> TRUE, exc |-> e, value |-> None]
Return(v) == [raised |-> FALSE, exc |-> NoExc, value |-> Some(v)]

-----------------------------------------------------------------------------
\* Text extraction (main3.py:66-81).  A document is the uploaded bytes as the
\* parsing library sees them: whether it parses, and the text of its pages
\* (PDF) or paragraphs (DOCX).

Documents ==
    { [valid |-> FALSE, pages |-> << >>],
      [valid |-> TRUE, pages |-> << >>],
      [valid |-> TRUE, pages |-> << << >>, << >> >>],
      [valid |-> TRUE, pages |-> << <<"Jane">>, <<"Doe", "\n">> >>] }

\* A document with text, for which the handler reaches the structuring step.
TextDocument == [valid |-> TRUE, pages |-> << <<"Jane">>, <<"Doe", "\n">> >>]

\* What is read back from a path that is missing or holds an empty file.
Unreadable == [valid |-> FALSE, pages |-> << >>]

\* A plausible slip: a file that cannot be opened yields no text instead of
\* an exception.
extract_text_from_pdf_lenient(doc) ==
    IF ~doc.valid THEN Return(<< >>)
    ELSE Return(strip(join(<<"\n">>, doc.pages)))

extract_text_from_pdf(doc) ==
    IF ~doc.valid THEN Raise(Exc("RuntimeError", 0, "PDF text extraction failed"))
    ELSE Return(strip(join(<<"\n">>, doc.pages)))

extract_text_from_docx(doc) ==
    IF ~doc.valid THEN Raise(Exc("RuntimeError", 0, "DOCX text extraction failed"))
    ELSE Return(join(<<"\n">>, doc.pages))

-----------------------------------------------------------------------------
\* The structuring step (main3.py:117-138).

\* uuid4() values are taken to be pairwise distinct: the n-th one drawn.
Uuid(n) == << "u" \o ToString(n) >>

\* The JSON texts a model reply can carry, each one atom, and what json.loads
\* makes of them.  "{jane}" is the record of the end-to-end example; "{odd}"
\* has a number for a name, an education mapping and an extraction_id of its own.
\* The others vary full_name (absent, null, empty, one token, three tokens
\* with runs of whitespace) and education (absent, null, a mapping, a list).
JsonTexts == {"{jane}", "{odd}", "7", "[]", "{}", "{cher}", "{ana}", "{noname}", "{nullname}"}

json_text(atom) ==
    CASE atom = "{jane}" ->
            JDict([full_name |-> JStr(<<"Jane", " ", "Doe">>),
                   current_designation |-> JStr(<<"Software", " ", "Engineer">>),
                   contact_info |-> JDict([email |-> JStr(<<"jane@x.com">>)]),
                   skills |-> JDict([primary_skills |-> JList(<<JStr(<<"Python">>)>>),
                                     secondary_skills |-> JList(<<JStr(<<"SQL">>)>>)]),
                   education |-> JList(<< >>),
                   total_experience |-> JDict([years |-> JStr(<< >>)]),
                   address |-> JDict(EmptyDict)])
      [] atom = "{odd}" ->
            JDict([full_name |-> JInt(42),
                   extraction_id |-> JStr(Uuid(1)),
                   education |-> JDict([institution |-> JStr(<<"MIT">>),
                                        degree |-> JStr(<<"BSc">>)])])
      [] atom = "{}" -> JDict(EmptyDict)
      [] atom = "{cher}" ->
            JDict([full_name |-> JStr(<<"Cher">>),
                   education |-> JDict([institution |-> JStr(<<"UCLA">>)])])
      [] atom = "{ana}" ->
            JDict([full_name |-> JStr(<<" ", "Ana", " ", " ", "de", "\n", "Armas", " ">>),
                   education |-> JList(<<JDict([institution |-> JStr(<<"MIT">>),
                                                degree |-> JStr(<<"BSc">>)]),
                                         JDict([degree |-> JStr(<<"MSc">>)])>>)])
      [] atom = "{noname}" ->
            JDict([full_name |-> JStr(<< >>), education |-> JNull])
      [] atom = "{nullname}" ->
            JDict([full_name |-> JNull,
                   education |-> JList(<<JDict([institution |-> JStr(<<"MIT">>)])>>)])
      [] atom = "7" -> JInt(7)
      [] atom = "[]" -> JList(<< >>)

\* json.loads: surrounding whitespace is skipped, the rest must be one JSON text.
json_loads(s) ==
    LET body == strip(s) IN
    IF Len(body) = 1 /\ body[1] \in JsonTexts THEN Return(json_text(body[1]))
    ELSE Raise(Exc("JSONDecodeError", 0, "Expecting value"))

\* The code-fence markers of a reply, each one atom: three backquotes
\* followed by "json", and three backquotes.
FenceJson == "<fence>json"
Fence == "<fence>"

\* Line 127: re.sub of the pattern  ^<fence>json\s*|\s*<fence>$  by the empty
\* string with re.MULTILINE, from atom i on.  ^ is the start of the text or of
\* a line, $ its end or the end of a line; the pattern is case-sensitive.
RECURSIVE re_sub_fence_from(_, _)
re_sub_fence_from(s, i) ==
    IF i > Len(s) THEN << >>
    ELSE
        LET at_line_start == i = 1 \/ s[i - 1] = "\n"
            ws_end == CHOOSE k \in i..(Len(s) + 1) :
                          /\ \A j \in i..(k - 1) : s[j] \in Whitespace
                          /\ (k = Len(s) + 1 \/ s[k] \notin Whitespace)
            after_open == CHOOSE k \in (i + 1)..(Len(s) + 1) :
                          /\ \A j \in (i + 1)..(k - 1) : s[j] \in Whitespace
                          /\ (k = Len(s) + 1 \/ s[k] \notin Whitespace)
        IN IF s[i] = FenceJson /\ at_line_start
           THEN re_sub_fence_from(s, after_open)
           ELSE IF /\ ws_end <= Len(s)
                   /\ s[ws_end] = Fence
                   /\ (ws_end = Len(s) \/ s[ws_end + 1] = "\n")
           THEN re_sub_fence_from(s, ws_end + 1)
           ELSE << s[i] >> \o re_sub_fence_from(s, i + 1)

re_sub_fence(s) == re_sub_fence_from(s, 1)

\* The outcome of ollama.chat: the call fails, or it returns this content.
Contents ==
    { <<"{jane}">>,
      <<FenceJson, "\n", "{jane}", "\n", Fence>>,
      <<" ", "{odd}", "\n">>,
      <<"7">>,
      <<"Sure!", " ", "{jane}">> }

NoReply == [failed |-> TRUE, content |-> << >>]

Replies == {NoReply} \cup {[failed |-> FALSE, content |-> c] : c \in Contents}

AiFailed == Exc("RuntimeError", 0, "AI processing failed")

\* A plausible slip: an extraction_id in the model's output is kept
\* (data.setdefault('extraction_id', ...)).
process_with_ai_setdefault(resume_text, reply, n) ==
    IF reply.failed THEN [result |-> Raise(AiFailed), drawn |-> 0]
    ELSE
        LET parsed == json_loads(re_sub_fence(strip(reply.content))) IN
        IF parsed.raised THEN [result |-> Raise(AiFailed), drawn |-> 0]
        ELSE
            LET data == parsed.value[1] IN
            IF data.t \in {"int", "bool", "null"}
            THEN [result |-> Raise(AiFailed), drawn |-> 0]
            ELSE IF data.t # "dict"
            THEN [result |-> Raise(AiFailed), drawn |-> 1]
            ELSE
                LET d1 == IF "education" \in DOMAIN data.d /\ data.d["education"].t = "dict"
                          THEN [data.d EXCEPT !["education"] = JList(<< @ >>)]
                          ELSE data.d
                    d2 == d1 @@ ("extraction_id" :> JStr(Uuid(n + 1)))
                    d3 == ("processing_date" :> JStr(<<"now">>)) @@ d2
                IN [result |-> Return(JDict(d3)), drawn |-> 1]

\* A plausible slip: an education mapping is left as it is (lines 130-131 missing).
process_with_ai_nonorm(resume_text, reply, n) ==
    IF reply.failed THEN [result |-> Raise(AiFailed), drawn |-> 0]
    ELSE
        LET parsed == json_loads(re_sub_fence(strip(reply.content))) IN
        IF parsed.raised THEN [result |-> Raise(AiFailed), drawn |-> 0]
        ELSE
            LET data == parsed.value[1] IN
            IF data.t \in {"int", "bool", "null"}
            THEN [result |-> Raise(AiFailed), drawn |-> 0]
            ELSE IF data.t # "dict"
            THEN [result |-> Raise(AiFailed), drawn |-> 1]
            ELSE
                LET d2 == ("extraction_id" :> JStr(Uuid(n + 1))) @@ data.d
                    d3 == ("processing_date" :> JStr(<<"now">>)) @@ d2
                IN [result |-> Return(JDict(d3)), drawn |-> 1]

\* process_with_ai(resume_text) when ollama.chat answers `reply` and n uuids
\* have been drawn: the result, and how many uuids the call draws.
process_with_ai(resume_text, reply, n) ==
    IF reply.failed THEN [result |-> Raise(AiFailed), drawn |-> 0]
    ELSE
        LET json_str == re_sub_fence(strip(reply.content))
            parsed == json_loads(json_str)
        IN
        IF parsed.raised THEN [result |-> Raise(AiFailed), drawn |-> 0]
        ELSE
            LET data == parsed.value[1] IN
            \* line 130: `'education' in data` raises for a number, a bool, null
            IF data.t \in {"int", "bool", "null"}
            THEN [result |-> Raise(AiFailed), drawn |-> 0]
            \* line 133: the uuid is drawn, then the item assignment raises
            ELSE IF data.t # "dict"
            THEN [result |-> Raise(AiFailed), drawn |-> 1]
            ELSE
                LET d1 == IF "education" \in DOMAIN data.d /\ data.d["education"].t = "dict"
                          THEN [data.d EXCEPT !["education"] = JList(<< @ >>)]
                          ELSE data.d
                    d2 == ("extraction_id" :> JStr(Uuid(n + 1))) @@ d1
                    d3 == ("processing_date" :> JStr(<<"now">>)) @@ d2
                IN [result |-> Return(JDict(d3)), drawn |-> 1]

-----------------------------------------------------------------------------
\* The flattened view (main3.py:229-269).

\* safe_get(data, *keys, default=default), main3.py:44-51.
RECURSIVE safe_get(_, _, _)
safe_get(data, keys, default) ==
    IF keys = << >> THEN (IF data.t # "null" THEN data ELSE default)
    ELSE IF data.t = "dict" /\ Head(keys) \in DOMAIN data.d
         THEN safe_get(data.d[Head(keys)], Tail(keys), default)
         ELSE default

\* Python's `a or b`.
py_or(a, b) == IF Truthy(a) THEN a ELSE b

\* list(set(value)), lines 248-249: the distinct elements, in no given order.
\* The result is kept as a set; a str gives its atoms, a mapping its keys.
list_set(value) ==
    CASE value.t = "list" -> {value.items[i] : i \in 1..Len(value.items)}
      [] value.t = "str" -> {JStr(<<value.s[i]>>) : i \in 1..Len(value.s)}
      [] value.t = "dict" -> {JStr(<<k>>) : k \in DOMAIN value.d}
      [] OTHER -> {}

\* set(value) raises TypeError: value is not iterable, or an element is unhashable.
set_raises(value) ==
    \/ value.t \in {"int", "bool", "null"}
    \/ (value.t = "list" /\ \E i \in 1..Len(value.items) : value.items[i].t \in {"list", "dict"})

build_view(json_data, extraction_id, metrics) ==
    LET full_name == safe_get(json_data, <<"full_name">>, JStr(<< >>))
        names == IF Truthy(full_name) THEN split(full_name.s) ELSE << << >> >>
        contact_info == safe_get(json_data, <<"contact_info">>, JDict(EmptyDict))
        phone_list == py_or(safe_get(contact_info, <<"phone">>, JList(<< >>)),
                            safe_get(json_data, <<"phone">>, JList(<< >>)))
        phone_number == IF phone_list.t = "list" /\ Truthy(phone_list)
                        THEN phone_list.items[1] ELSE JStr(<< >>)
        email == py_or(safe_get(contact_info, <<"email">>, JStr(<< >>)),
                       safe_get(json_data, <<"email">>, JStr(<< >>)))
        linkedin_url == safe_get(contact_info, <<"linkedin_url">>, JStr(<< >>))
        address_info == safe_get(json_data, <<"address">>, JDict(EmptyDict))
        parts == << safe_get(address_info, <<"city">>, JStr(<< >>)),
                    safe_get(address_info, <<"state">>, JStr(<< >>)),
                    safe_get(address_info, <<"country">>, JStr(<< >>)) >>
        kept == SelectSeq(parts, Truthy)
        address == join(<<",", " ">>, [i \in 1..Len(kept) |-> kept[i].s])
        current_designation == safe_get(json_data, <<"current_designation">>, JStr(<< >>))
        skills_data == safe_get(json_data, <<"skills">>, JDict(EmptyDict))
        primary == safe_get(skills_data, <<"primary_skills">>, JList(<< >>))
        secondary == safe_get(skills_data, <<"secondary_skills">>, JList(<< >>))
        total_experience ==
            py_or(safe_get(json_data, <<"total_experience", "years">>, JStr(<< >>)),
                  safe_get(json_data, <<"total_experience">>, JStr(<< >>)))
    IN
    \* line 230: .split() of a truthy value that is not a str
    IF Truthy(full_name) /\ full_name.t # "str"
    THEN Raise(Exc("AttributeError", 0, "object has no attribute 'split'"))
    \* line 239: ", ".join of an element that is not a str
    ELSE IF \E i \in 1..Len(kept) : kept[i].t # "str"
    THEN Raise(Exc("TypeError", 0, "sequence item: expected str instance"))
    \* lines 248-249
    ELSE IF set_raises(primary) \/ set_raises(secondary)
    THEN Raise(Exc("TypeError", 0, "unhashable or not iterable"))
    ELSE Return(
        [first_name |-> IF Len(names) > 0 THEN names[1] ELSE << >>,
         last_name |-> IF Len(names) > 1 THEN join(<<" ">>, Tail(names)) ELSE << >>,
         current_designation |-> current_designation,
         mobile_number |-> phone_number,
         email |-> email,
         address |-> address,
         linkedin_url |-> linkedin_url,
         skills |-> [primary |-> list_set(primary), secondary |-> list_set(secondary)],
         total_experience |-> total_experience,
         education |-> safe_get(json_data, <<"education">>, JList(<< >>)),
         extraction_id |-> extraction_id,
         accuracy_metrics |-> metrics])

-----------------------------------------------------------------------------
\* POST /extract-resume-file/ (main3.py:195-276).
\*
\* The handler is a coroutine with one suspension point, `await file.read()`
\* at line 206, reached with the temp file open for writing.  It runs in two
\* steps: lines 198-205 up to the await, and lines 206-276 after it.  Writing
\* the temp file itself is taken to succeed.

FileNames == { <<"cv", ".pdf">>, <<"cv", ".docx">>, <<"cv", ".txt">> }

\* del mapping[key]
dict_del(mapping, key) == [k \in DOMAIN mapping \ {key} |-> mapping[k]]

\* Lines 272-273 and 324-325: `except Exception as e` catches every exception
\* raised in the try block, the HTTPExceptions of the block included, and
\* raises HTTPException(500, ...) in its place.
except_exception(result) ==
    IF result.raised THEN Raise(Exc("HTTPException", 500, result.exc.msg)) ELSE result

\* Lines 210-213 for a supported file name: the text extraction by format.
extract_text(filename, file) ==
    IF lower_endswith(filename, ".pdf") THEN extract_text_from_pdf(file)
    ELSE extract_text_from_docx(file)

\* A plausible slip: the record is not put into storage (line 223 missing).
extract_try_block_nostore(storage, filename, file, reply, n) ==
    LET is_pdf == lower_endswith(filename, ".pdf")
        is_docx == lower_endswith(filename, ".docx")
        text == extract_text(filename, file)
        called == {IF is_pdf THEN "extract_text_from_pdf" ELSE "extract_text_from_docx"}
        ai == process_with_ai(text.value[1], reply, n)
        json_data == ai.result.value[1]
        extraction_id == json_data.d["extraction_id"].s
        metrics == calculate_extraction_accuracy(json_data)
    IN
    IF ~is_pdf /\ ~is_docx
    THEN [result |-> Raise(Exc("HTTPException", 400, "Unsupported file format")),
          storage |-> storage, drawn |-> 0, calls |-> {}]
    ELSE IF text.raised
    THEN [result |-> Raise(text.exc), storage |-> storage, drawn |-> 0, calls |-> called]
    ELSE IF text.value[1] = << >>
    THEN [result |-> Raise(Exc("HTTPException", 500, "Failed to extract text from resume")),
          storage |-> storage, drawn |-> 0, calls |-> called]
    ELSE IF ai.result.raised
    THEN [result |-> Raise(ai.result.exc), storage |-> storage, drawn |-> ai.drawn,
          calls |-> called \cup {"process_with_ai"}]
    ELSE [result |-> build_view(json_data, extraction_id, metrics),
          storage |-> storage, drawn |-> ai.drawn,
          calls |-> called \cup {"process_with_ai"}]

\* Lines 208-271 on the document `file` read back from the temp path, when
\* ollama.chat answers `reply` and n uuids have been drawn: the result of the
\* try block, the storage it leaves, the uuids drawn, the capabilities called.
extract_try_block(storage, filename, file, reply, n) ==
    LET is_pdf == lower_endswith(filename, ".pdf")
        is_docx == lower_endswith(filename, ".docx")
        text == extract_text(filename, file)
        called == {IF is_pdf THEN "extract_text_from_pdf" ELSE "extract_text_from_docx"}
        ai == process_with_ai(text.value[1], reply, n)
        json_data == ai.result.value[1]
        extraction_id == json_data.d["extraction_id"].s
        stored == (extraction_id :> json_data) @@ storage
        metrics == calculate_extraction_accuracy(json_data)
    IN
    IF ~is_pdf /\ ~is_docx
    THEN [result |-> Raise(Exc("HTTPException", 400, "Unsupported file format")),
          storage |-> storage, drawn |-> 0, calls |-> {}]
    ELSE IF text.raised
    THEN [result |-> Raise(text.exc), storage |-> storage, drawn |-> 0, calls |-> called]
    ELSE IF text.value[1] = << >>
    THEN [result |-> Raise(Exc("HTTPException", 500, "Failed to extract text from resume")),
          storage |-> storage, drawn |-> 0, calls |-> called]
    ELSE IF ai.result.raised
    THEN [result |-> Raise(ai.result.exc), storage |-> storage, drawn |-> ai.drawn,
          calls |-> called \cup {"process_with_ai"}]
    ELSE [result |-> build_view(json_data, extraction_id, metrics),
          storage |-> stored, drawn |-> ai.drawn,
          calls |-> called \cup {"process_with_ai"}]

\* The response FastAPI sends for the handler's result.
http_response(op, req, result, calls) ==
    [op |-> op, req |-> req,
     status |-> IF result.raised THEN result.exc.status ELSE 200,
     detail |-> result.exc.msg,
     calls |-> calls,
     body |-> result.value]

NoResponse == [op |-> "none", req |-> << >>, status |-> 0, detail |-> "",
               calls |-> {}, body |-> None]

\* The number of suspended extract requests recorded in handles.
RECURSIVE CountHandles(_, _)
CountHandles(handles, S) ==
    IF S = {} THEN 0
    ELSE LET f == CHOOSE f \in S : TRUE
         IN handles[f].linked + handles[f].stale + CountHandles(handles, S \ {f})

InFlight == CountHandles(open_handles, FileNames)

\* A plausible slip: the temp file is removed on the success path only.
finally_remove_on_success(files, path, result) ==
    IF result.raised THEN files ELSE files \ {path}

\* Lines 274-276: the temp path is removed if it exists.
finally_remove(files, path, result) == files \ {path}

\* Lines 198-205: the temp path is created, or truncated if it exists.
BeginExtract(filename) ==
    /\ InFlight < MaxInFlight
    /\ temp_files' = temp_files \cup {filename}
    /\ open_handles' = [open_handles EXCEPT ![filename].linked = @ + 1]
    /\ UNCHANGED <<extraction_data_storage, saved_resumes, uuid_counter, response,
                   extracted_data, accuracy_metrics, client_vars, pending_saves>>

\* Lines 206-276 for a request that uploaded `doc`.  linked: the file the
\* request opened is still the one at its path (no other request removed the
\* path since); otherwise the path is missing or holds another request's
\* still empty file.  An input that the run does not read is fixed: the
\* document when the path is not parsed, the reply when ollama.chat is not
\* called.
FinishExtract(filename, linked, doc, reply) ==
    /\ IF linked THEN open_handles[filename].linked > 0
                 ELSE open_handles[filename].stale > 0
    /\ LET file == IF linked THEN doc ELSE Unreadable
           out == extract_try_block(extraction_data_storage, filename, file, reply,
                                    uuid_counter)
           result == except_exception(out.result)
           parsed == linked /\ (lower_endswith(filename, ".pdf")
                                 \/ lower_endswith(filename, ".docx"))
           text == extract_text(filename, file)
       IN /\ parsed \/ doc = Unreadable
          /\ (parsed /\ ~text.raised /\ text.value # Some(<< >>)) \/ reply = NoReply
          /\ uuid_counter + out.drawn <= MaxUuid
          /\ extraction_data_storage' = out.storage
          /\ uuid_counter' = uuid_counter + out.drawn
          /\ response' = http_response("extract", filename, result, out.calls)
          /\ temp_files' = finally_remove(temp_files, filename, result)
    /\ open_handles' =
          [open_handles EXCEPT ![filename] =
              IF filename \in temp_files'
              THEN [linked |-> @.linked - (IF linked THEN 1 ELSE 0),
                    stale |-> @.stale - (IF linked THEN 0 ELSE 1)]
              ELSE [linked |-> 0, stale |-> @.linked + @.stale - 1]]
    /\ UNCHANGED <<saved_resumes, extracted_data, accuracy_metrics, client_vars,
                   pending_saves>>

-----------------------------------------------------------------------------
\* POST /save-full-json/ (main3.py:280-325).  The handler has no suspension
\* point: it runs as one step.

SaveIds == {Uuid(n) : n \in 1..MaxUuid} \cup { <<"unknown">> }
FirstNames == { <<"Jane">> }
LastNames == { <<"Doe">> }

\* Lines 303-310; the timestamps are left out.
full_save_data(original_data, request) ==
    [original_extraction |-> original_data,
     confirmation_details |-> [first_name |-> request.first_name,
                               last_name |-> request.last_name]]

\* A plausible slip: the entry is not removed after the save.
save_try_block_keep(storage, saved, request, write_ok) ==
    IF request.extraction_id \notin DOMAIN storage
    THEN [result |-> Raise(Exc("HTTPException", 404, "Extraction data not found")),
          storage |-> storage, saved |-> saved]
    ELSE IF ~write_ok
    THEN [result |-> Raise(Exc("OSError", 0, "write failed")),
          storage |-> storage, saved |-> saved]
    ELSE [result |-> Return([message |-> "JSON saved successfully"]),
          storage |-> storage,
          saved |-> saved (+) SetToBag({full_save_data(storage[request.extraction_id], request)})]

\* A plausible slip: the entry is removed before the file is written.
save_try_block_del_first(storage, saved, request, write_ok) ==
    IF request.extraction_id \notin DOMAIN storage
    THEN [result |-> Raise(Exc("HTTPException", 404, "Extraction data not found")),
          storage |-> storage, saved |-> saved]
    ELSE IF ~write_ok
    THEN [result |-> Raise(Exc("OSError", 0, "write failed")),
          storage |-> dict_del(storage, request.extraction_id), saved |-> saved]
    ELSE [result |-> Return([message |-> "JSON saved successfully"]),
          storage |-> dict_del(storage, request.extraction_id),
          saved |-> saved (+) SetToBag({full_save_data(storage[request.extraction_id], request)})]

\* Lines 286-322: the result of the try block, the storage and the artifacts
\* it leaves.  write_ok: makedirs, open and json.dump succeed.
save_try_block(storage, saved, request, write_ok) ==
    IF request.extraction_id \notin DOMAIN storage
    THEN [result |-> Raise(Exc("HTTPException", 404, "Extraction data not found")),
          storage |-> storage, saved |-> saved]
    ELSE IF ~write_ok
    THEN [result |-> Raise(Exc("OSError", 0, "write failed")),
          storage |-> storage, saved |-> saved]
    ELSE [result |-> Return([message |-> "JSON saved successfully"]),
          storage |-> dict_del(storage, request.extraction_id),
          saved |-> saved (+) SetToBag({full_save_data(storage[request.extraction_id], request)})]

SaveFullJson(extraction_id, first_name, last_name, write_ok) ==
    LET request == [extraction_id |-> extraction_id, first_name |-> first_name,
                    last_name |-> last_name]
        out == save_try_block(extraction_data_storage, saved_resumes, request, write_ok)
        result == except_exception(out.result)
    IN /\ BagCardinality(out.saved) <= MaxSaved
       /\ extraction_data_storage' = out.storage
       /\ saved_resumes' = out.saved
       /\ response' = http_response("save", extraction_id, result, {})
       /\ UNCHANGED <<temp_files, open_handles, uuid_counter, extracted_data,
                      accuracy_metrics, client_vars, pending_saves>>

-----------------------------------------------------------------------------
\* The service.

\* app2.py:10-15: the session state of a new client session.
NoSession == [autofill_data |-> EmptyDict, extraction_id |-> None, extraction_data |-> None]

\* The page of a new session.  confirm_buttons: the Accept and Reject buttons
\* are shown (app2.py:95-100); message: the st.success, st.info or st.error
\* text of the last run.
NoPage == [confirm_buttons |-> FALSE, message |-> ""]

\* No save request is waiting to be handled.
NoPending == [id \in SaveIds |-> 0]

Init ==
    /\ extraction_data_storage = << >>
    /\ temp_files = {}
    /\ open_handles = [f \in FileNames |-> NoHandles]
    /\ saved_resumes = EmptyBag
    /\ uuid_counter = 0
    /\ response = NoResponse
    /\ extracted_data = None
    /\ accuracy_metrics = None
    /\ session_state = NoSession
    /\ page = NoPage
    /\ resumes = EmptyBag
    /\ rejected = {}
    /\ pending_saves = NoPending

Next ==
    \/ \E filename \in FileNames : BeginExtract(filename)
    \/ \E filename \in FileNames, linked \in BOOLEAN, doc \in Documents, reply \in Replies :
          FinishExtract(filename, linked, doc, reply)
    \/ \E extraction_id \in SaveIds, first_name \in FirstNames, last_name \in LastNames,
          write_ok \in BOOLEAN :
          SaveFullJson(extraction_id, first_name, last_name, write_ok)

Spec == Init /\ [][Next]_vars

-----------------------------------------------------------------------------
\* The accuracy scoring alone, on every record of AccInputs.

InitAcc ==
    /\ extraction_data_storage = << >>
    /\ temp_files = {}
    /\ open_handles = [f \in FileNames |-> NoHandles]
    /\ saved_resumes = EmptyBag
    /\ uuid_counter = 0
    /\ response = NoResponse
    /\ extracted_data \in {Some(r) : r \in AccInputs}
    /\ accuracy_metrics = None
    /\ session_state = NoSession
    /\ page = NoPage
    /\ resumes = EmptyBag
    /\ rejected = {}
    /\ pending_saves = NoPending

CalculateExtractionAccuracy ==
    /\ accuracy_metrics = None
    /\ accuracy_metrics' = Some(calculate_extraction_accuracy(extracted_data[1]))
    /\ UNCHANGED <<service_vars, extracted_data, client_vars, pending_saves>>

NextAcc == CalculateExtractionAccuracy

SpecAcc == InitAcc /\ [][NextAcc]_vars

-----------------------------------------------------------------------------
\* Claims about the accuracy scoring, checked under SpecAcc.

ChecklistPaths ==
    {"full_name", "current_designation", "contact_info.email", "contact_info.phone",
     "contact_info.linkedin_url", "address", "skills.primary_skills",
     "skills.secondary_skills", "total_experience.years", "education"}

\* C7: for every structured record, the result of calculate_extraction_accuracy
\* has total_fields = 10, filled_fields + empty_fields = total_fields,
\* field_status maps exactly the 10 checklist paths to "filled" or "empty",
\* filled_fields is the number of paths mapped to "filled", and
\* extraction_rate = filled_fields / 10 * 100 (here in hundredths of a percent).
C7_AccuracyTotals ==
    accuracy_metrics # None =>
        LET m == accuracy_metrics[1] IN
        /\ m.total_fields = 10
        /\ m.filled_fields + m.empty_fields = m.total_fields
        /\ DOMAIN m.field_status = ChecklistPaths
        /\ \A f \in ChecklistPaths : m.field_status[f] \in {"filled", "empty"}
        /\ m.filled_fields = Cardinality({f \in ChecklistPaths : m.field_status[f] = "filled"})
        /\ m.extraction_rate = m.filled_fields * 1000

\* C7 witness: a record with some checklist fields filled and some empty
\* has been scored.
C7_Witness ==
    /\ accuracy_metrics # None
    /\ accuracy_metrics[1].filled_fields = 4
    /\ accuracy_metrics[1].empty_fields = 6

\* The value at a checklist path of a record, as the claim reads it: absent
\* when the leaf key is missing, when the parent key is missing or does not
\* hold a mapping, or when the value is null.
C8_Absent(data, f) ==
    LET parts == split_dot(f) IN
    IF Len(parts) = 1
    THEN parts[1] \notin DOMAIN data.d \/ data.d[parts[1]] = JNull
    ELSE \/ parts[1] \notin DOMAIN data.d
         \/ data.d[parts[1]].t # "dict"
         \/ parts[2] \notin DOMAIN data.d[parts[1]].d
         \/ data.d[parts[1]].d[parts[2]] = JNull

C8_Value(data, f) ==
    LET parts == split_dot(f) IN
    IF Len(parts) = 1 THEN data.d[parts[1]] ELSE data.d[parts[1]].d[parts[2]]

C8_AllFalsy(v) == v.t = "list" /\ \A i \in 1..Len(v.items) : ~Truthy(v.items[i])

\* C8: each checklist path is classified "empty" exactly when its value is
\* absent, an empty string, an empty list, an empty mapping, or a list whose
\* every element is falsy; every other value is classified "filled".
C8_EmptyClassification ==
    accuracy_metrics # None =>
        \A f \in ChecklistPaths :
            LET data == extracted_data[1]
                claimed_empty ==
                    \/ C8_Absent(data, f)
                    \/ C8_Value(data, f) = JStr(<< >>)
                    \/ C8_Value(data, f) = JList(<< >>)
                    \/ C8_Value(data, f) = JDict(EmptyDict)
                    \/ C8_AllFalsy(C8_Value(data, f))
            IN accuracy_metrics[1].field_status[f] =
                   (IF claimed_empty THEN "empty" ELSE "filled")

\* C8 witness: a scored record holds, at one path, a non-empty list of falsy
\* elements (classified empty) and, at another, the number 0 (classified filled).
C8_Witness ==
    /\ accuracy_metrics # None
    /\ \E f \in ChecklistPaths :
          /\ ~C8_Absent(extracted_data[1], f)
          /\ C8_Value(extracted_data[1], f) = JList(<<JInt(0), JStr(<< >>)>>)
          /\ accuracy_metrics[1].field_status[f] = "empty"

-----------------------------------------------------------------------------
\* Claims about the two handlers, checked under Spec.

\* The extraction_id of a stored record or of the record in an artifact.
IdOf(record) == record.d["extraction_id"].s

\* The number of artifacts written for an extraction_id.
RECURSIVE SumCopies(_, _)
SumCopies(bag, S) ==
    IF S = {} THEN 0
    ELSE LET a == CHOOSE a \in S : TRUE IN CopiesIn(a, bag) + SumCopies(bag, S \ {a})

ArtifactCount(saved, id) ==
    SumCopies(saved, {a \in BagToSet(saved) : IdOf(a.original_extraction) = id})

Supported(filename) ==
    lower_endswith(filename, ".pdf") \/ lower_endswith(filename, ".docx")

\* C1: a save whose extraction_id is not in storage is answered 404, a
\* status other than the 500 of a write failure, writes no artifact and leaves
\* storage unchanged.
C1_NotFoundIs404 ==
    [][\A id \in SaveIds, fn \in FirstNames, ln \in LastNames, ok \in BOOLEAN :
          (id \notin DOMAIN extraction_data_storage /\ SaveFullJson(id, fn, ln, ok)) =>
              /\ response'.status = 404
              /\ saved_resumes' = saved_resumes
              /\ extraction_data_storage' = extraction_data_storage]_vars

\* C2: at most one artifact is ever written per extraction_id; once it is
\* written the id is out of storage; a save answered 200 has written the
\* artifact of its id and removed the entry, and a save of an id that already
\* has its artifact is not answered 200.
C2_SingleUse ==
    /\ \A id \in SaveIds :
          /\ ArtifactCount(saved_resumes, id) <= 1
          /\ ArtifactCount(saved_resumes, id) = 1 => id \notin DOMAIN extraction_data_storage
    /\ (response.op = "save" /\ response.status = 200) =>
          /\ ArtifactCount(saved_resumes, response.req) = 1
          /\ response.req \notin DOMAIN extraction_data_storage

\* C2 witness: a save of an id whose artifact is already written has failed
\* (the second of two saves of the same id).
C2_Witness ==
    /\ response.op = "save"
    /\ response.status # 200
    /\ ArtifactCount(saved_resumes, response.req) = 1

\* C3: an extract request that ends in an error leaves storage as it was.
C3_ErrorLeavesStorage ==
    [][(CountHandles(open_handles', FileNames) < CountHandles(open_handles, FileNames)
        /\ response'.status # 200)
       => extraction_data_storage' = extraction_data_storage]_vars

\* C4: an extract request whose file name ends neither in .pdf nor in .docx
\* is answered with a 4xx status, and neither the text extraction nor the
\* structuring step is run for it.
C4_UnsupportedIsClientError ==
    (response.op = "extract" /\ ~Supported(response.req)) =>
        /\ response.status \in 400..499
        /\ response.calls = {}

\* C5: a PDF or DOCX upload whose text is empty after trimming is answered
\* 500 with the empty-text failure, and process_with_ai is not called for it.
C5_BlankTextRejected ==
    [][\A filename \in FileNames, doc \in Documents, reply \in Replies :
          (/\ Supported(filename)
           /\ doc.valid
           /\ strip(join(<<"\n">>, doc.pages)) = << >>
           /\ FinishExtract(filename, TRUE, doc, reply)) =>
              /\ response'.status = 500
              /\ response'.detail = "Failed to extract text from resume"
              /\ "process_with_ai" \notin response'.calls]_vars

\* C6: when an extract request finishes, on whatever exit path, no file is
\* left at its temp path.
C6_TempFileRemoved ==
    [][\A f \in FileNames :
          (open_handles'[f].linked + open_handles'[f].stale
              < open_handles[f].linked + open_handles[f].stale)
          => f \notin temp_files']_vars

\* C6 witness: a request that wrote its temp file has finished on an
\* exception path, and no temp file is left.
C6_Witness ==
    /\ response.op = "extract"
    /\ response.status = 500
    /\ response.detail = "AI processing failed"
    /\ temp_files = {}

\* C9: a record enters storage under the uuid the service drew for it, which
\* is also the extraction_id it holds and the one returned, whatever
\* extraction_id the model's output carried; that uuid differs from every
\* uuid drawn before, and no existing entry is overwritten.
C9_FreshServiceId ==
    [][\A id \in DOMAIN extraction_data_storage' :
          IF id \in DOMAIN extraction_data_storage
          THEN extraction_data_storage'[id] = extraction_data_storage[id]
          ELSE /\ uuid_counter' = uuid_counter + 1
               /\ id = Uuid(uuid_counter')
               /\ \A k \in 1..uuid_counter : id # Uuid(k)
               /\ IdOf(extraction_data_storage'[id]) = id
               /\ response'.status = 200 => response'.body[1].extraction_id = id]_vars

\* C9 witness: the record whose model output carried the extraction_id of the
\* first extraction is stored under the second uuid, beside the first entry.
C9_Witness ==
    /\ Uuid(1) \in DOMAIN extraction_data_storage
    /\ Uuid(2) \in DOMAIN extraction_data_storage
    /\ extraction_data_storage[Uuid(1)].d["full_name"] = JStr(<<"Jane", " ", "Doe">>)
    /\ extraction_data_storage[Uuid(2)].d["full_name"] = JInt(42)

\* C10: an entry is added only by an extract request whose structuring step
\* succeeded, and never under an id whose artifact is written; an entry that
\* stays is not modified; an entry is removed only by a save of its id
\* answered 200, which has written it as original_extraction.
C10_Lifecycle ==
    [][\A id \in DOMAIN extraction_data_storage \cup DOMAIN extraction_data_storage' :
          /\ (id \notin DOMAIN extraction_data_storage) =>
                /\ response'.op = "extract"
                /\ "process_with_ai" \in response'.calls
                /\ CountHandles(open_handles', FileNames)
                      = CountHandles(open_handles, FileNames) - 1
                /\ ArtifactCount(saved_resumes, id) = 0
                /\ \A k \in 1..uuid_counter : id # Uuid(k)
          /\ (id \in DOMAIN extraction_data_storage /\ id \in DOMAIN extraction_data_storage') =>
                extraction_data_storage'[id] = extraction_data_storage[id]
          /\ (id \notin DOMAIN extraction_data_storage') =>
                /\ response'.op = "save"
                /\ response'.status = 200
                /\ response'.req = id
                /\ \E a \in BagToSet(saved_resumes') :
                      /\ a.original_extraction = extraction_data_storage[id]
                      /\ CopiesIn(a, saved_resumes') = CopiesIn(a, saved_resumes) + 1]_vars

\* C10 witness: one entry has been removed by its save while another entry,
\* stored before the save, is still there.
C10_Witness ==
    /\ response.op = "save"
    /\ response.status = 200
    /\ response.req \notin DOMAIN extraction_data_storage
    /\ ArtifactCount(saved_resumes, response.req) = 1
    /\ extraction_data_storage # << >>

-----------------------------------------------------------------------------
\* The Streamlit client (src/app2.py): one session, one user.  A click reruns
\* the script; requests.post blocks until the service has answered, so the
\* service handles the session's request within the client's step.

\* app2.py:49-51: the upload widget takes .pdf and .docx names only.
ClientFileNames == {f \in FileNames : Supported(f)}

\* The fields of the candidate form (app2.py:141-180) and the required ones
\* (app2.py:185).
FormFields ==
    {"first_name", "last_name", "mobile", "address", "linkedin_url", "email",
     "education", "total_exp", "designation", "primary_skills", "secondary_skills"}

required_fields ==
    {"first_name", "last_name", "mobile", "email", "education", "total_exp",
     "designation", "primary_skills"}

\* What the user types into a field that is not left as it is.
Typed(field) ==
    CASE field = "first_name" -> <<"Jane">>
      [] field = "last_name" -> <<"Doe">>
      [] OTHER -> <<"x">>

\* The value shown in a field before the user edits it: the autofill value
\* when it is a str (app2.py:141-180), otherwise nothing.
FormDefault(autofill, field) ==
    IF field \in DOMAIN autofill /\ autofill[field].t = "str"
    THEN autofill[field].s ELSE << >>

\* The form the user submits: the fields of `blank` are empty, the others
\* keep a non-empty default (keep) or hold typed text.
FormData(autofill, blank, keep) ==
    [field \in FormFields |->
        IF field \in blank THEN << >>
        ELSE IF keep /\ FormDefault(autofill, field) # << >>
        THEN FormDefault(autofill, field)
        ELSE IF field \in required_fields THEN Typed(field) ELSE << >>]

\* The sets of required fields the user leaves empty: none, any one, or all.
BlankChoices ==
    {{}} \cup {{field} : field \in required_fields} \cup {required_fields}

\* app2.py:186: all(required_fields).
all_required(form_data) == \A field \in required_fields : form_data[field] # << >>

\* The enumerations of a set: list(set(...)) fixes one of them (main3.py:248-249).
Orders(S) ==
    {order \in [1..Cardinality(S) -> S] : \A x \in S : \E i \in 1..Cardinality(S) : order[i] = x}

\* app2.py:127-128: one education entry as "institution: degree".
edu_text(edu) ==
    dict_get(edu.d, "institution", JStr(<< >>)).s \o <<":", " ">>
        \o dict_get(edu.d, "degree", JStr(<< >>)).s

\* app2.py:116-129 raises: ", ".join of an element that is not a str, .get of
\* an education entry that is not a mapping, or iteration of an education value
\* that is not a list.
autofill_raises(data) ==
    \/ \E x \in data.skills.primary \cup data.skills.secondary : x.t # "str"
    \/ data.education.t \notin {"list", "str", "dict"}
    \/ data.education.t \in {"str", "dict"} /\ Truthy(data.education)
    \/ /\ data.education.t = "list"
       /\ \E i \in 1..Len(data.education.items) :
             \/ data.education.items[i].t # "dict"
             \/ \E k \in {"institution", "degree"} :
                   dict_get(data.education.items[i].d, k, JStr(<< >>)).t # "str"

\* app2.py:116-129: the autofill values of the view `data`.
autofill_of(data, primary, secondary) ==
    [first_name |-> JStr(data.first_name),
     last_name |-> JStr(data.last_name),
     mobile |-> data.mobile_number,
     email |-> data.email,
     address |-> JStr(data.address),
     linkedin_url |-> data.linkedin_url,
     designation |-> data.current_designation,
     total_exp |-> data.total_experience,
     primary_skills |-> JStr(join(<<",", " ">>, [i \in DOMAIN primary |-> primary[i].s])),
     secondary_skills |-> JStr(join(<<",", " ">>, [i \in DOMAIN secondary |-> secondary[i].s])),
     education |-> JStr(IF data.education.t = "list"
                        THEN join(<<",", " ">>, [i \in DOMAIN data.education.items |->
                                                    edu_text(data.education.items[i])])
                        ELSE << >>)]

\* app2.py:53-105: the user uploads `doc` under `filename` and clicks Extract
\* Information; the service handles the request (main3.py:195-276) and, on a
\* 200 answer, the view is kept in the session and the two buttons are shown.
\* The reply is fixed when ollama.chat is not called.
ClientExtract(filename, doc, reply) ==
    /\ InFlight = 0
    /\ LET text == extract_text(filename, doc)
       IN (~text.raised /\ text.value # Some(<< >>)) \/ reply = NoReply
    /\ \E out \in {extract_try_block(extraction_data_storage, filename, doc, reply,
                                      uuid_counter)} :
       \E answer \in {http_response("extract", filename, except_exception(out.result),
                                    out.calls)} :
          /\ uuid_counter + out.drawn <= MaxUuid
          /\ extraction_data_storage' = out.storage
          /\ uuid_counter' = uuid_counter + out.drawn
          /\ response' = answer
          /\ session_state' =
                IF answer.status = 200
                THEN [session_state EXCEPT !.extraction_data = Some(answer.body[1]),
                                           !.extraction_id = Some(answer.body[1].extraction_id)]
                ELSE session_state
          /\ page' = IF answer.status = 200
                     THEN [confirm_buttons |-> TRUE, message |-> "Extraction Rate"]
                     ELSE [confirm_buttons |-> FALSE, message |-> "Error processing resume"]
    /\ UNCHANGED <<temp_files, open_handles, saved_resumes, extracted_data, accuracy_metrics,
                   resumes, rejected, pending_saves>>

\* app2.py:107-133: the user clicks Accept AI Results (confirm) or Reject
\* Extraction Results.  primary and secondary are the orders of the skills lists.
confirm_extraction(session, confirm, primary, secondary) ==
    IF session.extraction_data = None THEN session
    ELSE IF confirm
    THEN IF autofill_raises(session.extraction_data[1]) THEN session
         ELSE [session EXCEPT !.autofill_data =
                  autofill_of(session.extraction_data[1], primary, secondary)]
    ELSE [session EXCEPT !.autofill_data = EmptyDict]

ConfirmExtraction(confirm) ==
    /\ page.confirm_buttons
    /\ \E primary \in Orders(session_state.extraction_data[1].skills.primary),
          secondary \in Orders(session_state.extraction_data[1].skills.secondary) :
          session_state' = confirm_extraction(session_state, confirm, primary, secondary)
    /\ page' = [confirm_buttons |-> FALSE,
                message |-> IF ~confirm THEN "Extraction rejected. Please fill the form manually."
                            ELSE IF autofill_raises(session_state.extraction_data[1])
                            THEN "exception"
                            ELSE "Extraction confirmed. Form will be autofilled."]
    /\ rejected' = IF confirm THEN rejected ELSE rejected \cup {session_state.extraction_id[1]}
    /\ UNCHANGED <<service_vars, extracted_data, accuracy_metrics, resumes, pending_saves>>

\* A plausible slip: the form is sent whether or not a required field is empty.
submit_nocheck(session, form_data, storage, saved, local, write_ok, local_ok) ==
    IF session.extraction_id = None
    THEN [session |-> session, storage |-> storage, saved |-> saved, local |-> local,
          sent |-> FALSE, answer |-> NoResponse, message |-> "No extraction ID found"]
    ELSE
        LET id == session.extraction_id[1]
            request == [extraction_id |-> id, first_name |-> form_data["first_name"],
                        last_name |-> form_data["last_name"]]
            out == save_try_block(storage, saved, request, write_ok)
            answer == http_response("save", id, except_exception(out.result), {})
        IN IF answer.status = 200
           THEN [session |-> [session EXCEPT !.autofill_data = EmptyDict,
                                             !.extraction_id = None,
                                             !.extraction_data = None],
                 storage |-> out.storage, saved |-> out.saved,
                 local |-> IF local_ok THEN local (+) SetToBag({form_data}) ELSE local,
                 sent |-> TRUE, answer |-> answer,
                 message |-> IF local_ok THEN "Profile saved successfully!"
                             ELSE "Error saving JSON"]
           ELSE [session |-> session, storage |-> out.storage, saved |-> out.saved,
                 local |-> local, sent |-> TRUE, answer |-> answer,
                 message |-> "Save failed"]

\* A plausible slip: the local copy is written before the service is asked,
\* whatever the service then answers.
submit_local_first(session, form_data, storage, saved, local, write_ok, local_ok) ==
    LET first == submit_nocheck(session, form_data, storage, saved, local, write_ok, FALSE)
    IN IF ~all_required(form_data) \/ session.extraction_id = None
       THEN [first EXCEPT !.storage = storage, !.saved = saved, !.sent = FALSE,
                          !.session = session, !.answer = NoResponse]
       ELSE [first EXCEPT !.local = IF local_ok THEN local (+) SetToBag({form_data}) ELSE local]

\* A plausible slip: the session is reset only when the local file was written.
submit_reset_if_local(session, form_data, storage, saved, local, write_ok, local_ok) ==
    IF ~all_required(form_data)
    THEN [session |-> session, storage |-> storage, saved |-> saved, local |-> local,
          sent |-> FALSE, answer |-> NoResponse,
          message |-> "Please fill all required fields (marked with *)"]
    ELSE LET out == submit_nocheck(session, form_data, storage, saved, local, write_ok,
                                   local_ok)
         IN IF out.sent /\ out.answer.status = 200 /\ ~local_ok
            THEN [out EXCEPT !.session = session]
            ELSE out

\* app2.py:184-227: the submit handler on form_data.  write_ok: the service's
\* write succeeds; local_ok: save_resume_json (app2.py:17-45) succeeds.  The
\* result: the session, the service's storage and artifacts, the local files,
\* whether a /save-full-json/ request was sent, and its answer.
submit(session, form_data, storage, saved, local, write_ok, local_ok) ==
    IF ~all_required(form_data)
    THEN [session |-> session, storage |-> storage, saved |-> saved, local |-> local,
          sent |-> FALSE, answer |-> NoResponse,
          message |-> "Please fill all required fields (marked with *)"]
    ELSE IF session.extraction_id = None
    THEN [session |-> session, storage |-> storage, saved |-> saved, local |-> local,
          sent |-> FALSE, answer |-> NoResponse, message |-> "No extraction ID found"]
    ELSE
        LET id == session.extraction_id[1]
            request == [extraction_id |-> id, first_name |-> form_data["first_name"],
                        last_name |-> form_data["last_name"]]
            out == save_try_block(storage, saved, request, write_ok)
            answer == http_response("save", id, except_exception(out.result), {})
        IN IF answer.status = 200
           THEN [session |-> [session EXCEPT !.autofill_data = EmptyDict,
                                             !.extraction_id = None,
                                             !.extraction_data = None],
                 storage |-> out.storage, saved |-> out.saved,
                 local |-> IF local_ok THEN local (+) SetToBag({form_data}) ELSE local,
                 sent |-> TRUE, answer |-> answer,
                 message |-> IF local_ok THEN "Profile saved successfully!"
                             ELSE "Error saving JSON"]
           ELSE [session |-> session, storage |-> out.storage, saved |-> out.saved,
                 local |-> local, sent |-> TRUE, answer |-> answer,
                 message |-> "Save failed"]

\* The user leaves the fields of `blank` empty and clicks Submit Profile.
\* An input that the run does not read is fixed: the kept defaults and the
\* two write outcomes when a required field is empty, the local write outcome
\* when the service's write fails.
SubmitForm(blank, keep, write_ok, local_ok) ==
    /\ blank # {} => (~keep /\ write_ok /\ local_ok)
    /\ ~write_ok => local_ok
    /\ \E out \in {submit(session_state, FormData(session_state.autofill_data, blank, keep),
                           extraction_data_storage, saved_resumes, resumes, write_ok,
                           local_ok)} :
       /\ BagCardinality(out.saved) <= MaxSaved
       /\ session_state' = out.session
       /\ page' = [confirm_buttons |-> FALSE, message |-> out.message]
       /\ extraction_data_storage' = out.storage
       /\ saved_resumes' = out.saved
       /\ resumes' = out.local
       /\ response' = IF out.sent THEN out.answer ELSE response
       /\ UNCHANGED <<temp_files, open_handles, uuid_counter, extracted_data,
                      accuracy_metrics, rejected, pending_saves>>

\* The user uploads a document with text or a file that does not parse.
NextClient ==
    \/ \E filename \in ClientFileNames, doc \in {TextDocument, Unreadable}, reply \in Replies :
          ClientExtract(filename, doc, reply)
    \/ \E confirm \in BOOLEAN : ConfirmExtraction(confirm)
    \/ \E blank \in BlankChoices, keep \in BOOLEAN, write_ok \in BOOLEAN,
          local_ok \in BOOLEAN :
          SubmitForm(blank, keep, write_ok, local_ok)

SpecClient == Init /\ [][NextClient]_vars

-----------------------------------------------------------------------------
\* Claims about the client session, checked under SpecClient.

\* C11: once the user has rejected an extraction, its record stays in the
\* service's storage whatever the session does next, a manual submit of the
\* form included; the reject itself clears the form defaults and nothing else.
C11_RejectedStays ==
    [][/\ \A id \in rejected :
             id \in DOMAIN extraction_data_storage => id \in DOMAIN extraction_data_storage'
       /\ ConfirmExtraction(FALSE) =>
             /\ session_state' = [session_state EXCEPT !.autofill_data = EmptyDict]
             /\ UNCHANGED <<service_vars, resumes>>]_vars

\* C12: a submit with one of the eight required fields empty sends no
\* /save-full-json/ request (the service's state and its last response stay as
\* they are), writes no local file and leaves extraction_id, extraction_data
\* and autofill_data unchanged.
C12_BlankRejected ==
    [][(\E blank \in BlankChoices \ {{}}, keep \in BOOLEAN, write_ok \in BOOLEAN,
           local_ok \in BOOLEAN : SubmitForm(blank, keep, write_ok, local_ok)) =>
          /\ UNCHANGED <<service_vars, resumes>>
          /\ session_state'.extraction_id = session_state.extraction_id
          /\ session_state'.extraction_data = session_state.extraction_data
          /\ session_state'.autofill_data = session_state.autofill_data
          /\ page'.message = "Please fill all required fields (marked with *)"]_vars

\* C12 witness: a form with an empty required field has been submitted in a
\* session that holds an extraction_id whose record is in storage.
C12_Witness ==
    /\ page.message = "Please fill all required fields (marked with *)"
    /\ session_state.extraction_id # None
    /\ session_state.extraction_id[1] \in DOMAIN extraction_data_storage
    /\ session_state.autofill_data # EmptyDict

\* C18: a local file is written only in a submit whose /save-full-json/
\* request for the session's extraction_id was answered 200; when the local
\* write then fails, the artifact of that id is written and its entry is out
\* of storage all the same.
C18_LocalAfterService ==
    [][/\ resumes' # resumes =>
             /\ session_state.extraction_id # None
             /\ response'.op = "save"
             /\ response'.status = 200
             /\ response'.req = session_state.extraction_id[1]
             /\ ArtifactCount(saved_resumes', response'.req)
                   = ArtifactCount(saved_resumes, response'.req) + 1
             /\ BagCardinality(resumes') = BagCardinality(resumes) + 1
       /\ page'.message = "Error saving JSON" =>
             /\ resumes' = resumes
             /\ session_state.extraction_id[1] \in DOMAIN extraction_data_storage
             /\ session_state.extraction_id[1] \notin DOMAIN extraction_data_storage'
             /\ ArtifactCount(saved_resumes', session_state.extraction_id[1]) = 1
             /\ response'.status = 200]_vars

\* C18 witness: the service has saved the session's extraction and the local
\* write has failed: one artifact, no local file, the entry removed.
C18_Witness ==
    /\ page.message = "Error saving JSON"
    /\ resumes = EmptyBag
    /\ BagCardinality(saved_resumes) = 1
    /\ response.req \notin DOMAIN extraction_data_storage

-----------------------------------------------------------------------------
\* The extract handler alone, one request after the other, on model replies
\* that carry every JSON object text plain and inside code-fence markers.

\* Three backquotes followed by "JSON" and by "Json".
FenceJsonUpper == "<fence>JSON"
FenceJsonMixed == "<fence>Json"

ObjectTexts == {atom \in JsonTexts : json_text(atom).t = "dict"}

\* A reply content: the JSON text J inside the opening marker `open` and the
\* closing marker, each on a line of its own, with whitespace around when
\* `spaced`.
Fenced(open, J, spaced) ==
    IF spaced THEN <<"\n", " ", open, " ", "\n", J, " ", "\n", Fence, "\n">>
    ELSE <<open, "\n", J, "\n", Fence>>

FencedContents ==
    {Fenced(open, J, spaced) : open \in {FenceJson, FenceJsonUpper, FenceJsonMixed},
                               J \in ObjectTexts, spaced \in BOOLEAN}

StructContents == {<<J>> : J \in ObjectTexts} \cup FencedContents \cup { <<"7">> }

StructReplies == {NoReply} \cup {[failed |-> FALSE, content |-> c] : c \in StructContents}

\* main3.py:195-276 for a request that no other request interleaves with.
ExtractResumeFile(filename, doc, reply) ==
    /\ InFlight = 0
    /\ LET out == extract_try_block(extraction_data_storage, filename, doc, reply, uuid_counter)
       IN /\ uuid_counter + out.drawn <= MaxUuid
          /\ extraction_data_storage' = out.storage
          /\ uuid_counter' = uuid_counter + out.drawn
          /\ response' = http_response("extract", filename, except_exception(out.result),
                                       out.calls)
    /\ UNCHANGED <<temp_files, open_handles, saved_resumes, extracted_data, accuracy_metrics,
                   client_vars, pending_saves>>

NextStruct ==
    \E reply \in StructReplies : ExtractResumeFile(<<"cv", ".pdf">>, TextDocument, reply)

SpecStruct == Init /\ [][NextStruct]_vars

-----------------------------------------------------------------------------
\* Claims about structuring and the view, checked under SpecStruct.

CvPdf == <<"cv", ".pdf">>

\* The JSON text that a reply content carries.
JsonOf(content) == CHOOSE J \in JsonTexts : \E i \in DOMAIN content : content[i] = J

\* C13: when the model's JSON has education as one mapping, the record that
\* is stored has education as the list of exactly that mapping; an education
\* value that is already a list (or any other value) is stored as it is, and
\* an absent one stays absent.
C13_EducationNormalised ==
    [][\A id \in DOMAIN extraction_data_storage' \ DOMAIN extraction_data_storage,
          reply \in StructReplies :
          ExtractResumeFile(CvPdf, TextDocument, reply) =>
              LET raw == json_text(JsonOf(reply.content)).d
                  rec == extraction_data_storage'[id].d
              IN IF "education" \notin DOMAIN raw THEN "education" \notin DOMAIN rec
                 ELSE IF raw["education"].t = "dict"
                 THEN rec["education"] = JList(<< raw["education"] >>)
                 ELSE rec["education"] = raw["education"]]_vars

\* C13 witness: the record whose education was one mapping is stored, and
\* returned, with the one-element list.
C13_Witness ==
    /\ response.status = 200
    /\ response.body[1].first_name = <<"Cher">>
    /\ response.body[1].education = JList(<<JDict([institution |-> JStr(<<"UCLA">>)])>>)
    /\ extraction_data_storage[response.body[1].extraction_id].d["education"]
          = JList(<<JDict([institution |-> JStr(<<"UCLA">>)])>>)

\* C14: a reply that wraps the JSON object text J in an opening json fence
\* marker, in any letter case and with whitespace around, and a closing
\* marker has the same outcome as the reply J alone: the same response and
\* the same record stored.
C14_FenceTransparent ==
    [][\A content \in FencedContents :
          ExtractResumeFile(CvPdf, TextDocument, [failed |-> FALSE, content |-> content]) =>
              LET plain == extract_try_block(extraction_data_storage, CvPdf, TextDocument,
                              [failed |-> FALSE, content |-> << JsonOf(content) >>],
                              uuid_counter)
              IN /\ extraction_data_storage' = plain.storage
                 /\ response' = http_response("extract", CvPdf,
                                              except_exception(plain.result), plain.calls)]_vars

\* The whitespace-separated tokens of a name whose tokens are one atom each.
NameTokens(s) == SelectSeq(s, LAMBDA atom : atom \notin Whitespace)

\* The tokens after the first, with one space between two of them.
RestSpaced(tokens) ==
    IF Len(tokens) < 2 THEN << >>
    ELSE [i \in 1..(2 * (Len(tokens) - 1) - 1) |->
             IF i % 2 = 1 THEN tokens[(i + 1) \div 2 + 1] ELSE " "]

\* C15: a request whose structured record has a str, null or absent
\* full_name is answered 200 with first_name the first whitespace-separated
\* token of full_name and last_name the other tokens joined by single spaces;
\* both are empty when full_name is absent, null or empty, and last_name is
\* empty when there is one token.
C15_NameSplit ==
    [][\A id \in DOMAIN extraction_data_storage' \ DOMAIN extraction_data_storage :
          LET rec == extraction_data_storage'[id].d
              full_name == IF "full_name" \in DOMAIN rec THEN rec["full_name"] ELSE JNull
              tokens == IF full_name.t = "str" THEN NameTokens(full_name.s) ELSE << >>
          IN full_name.t \in {"str", "null"} =>
                /\ response'.status = 200
                /\ response'.body[1].extraction_id = id
                /\ response'.body[1].first_name
                      = (IF tokens = << >> THEN << >> ELSE << tokens[1] >>)
                /\ response'.body[1].last_name = RestSpaced(tokens)]_vars

\* C15 witness: a three-token name with runs of whitespace has been split.
C15_Witness ==
    /\ response.status = 200
    /\ response.body[1].first_name = <<"Ana">>
    /\ response.body[1].last_name = <<"de", " ", "Armas">>

-----------------------------------------------------------------------------
\* Save requests that are in flight together.  The service runs its handlers
\* on one event loop: a request is received, waits for its turn, and its
\* handler then runs up to its first await.  save_full_json (main3.py:280-325)
\* has none, so it runs from its existence check to its response in one step.

RECURSIVE CountPending(_, _)
CountPending(pending, S) ==
    IF S = {} THEN 0
    ELSE LET id == CHOOSE id \in S : TRUE IN pending[id] + CountPending(pending, S \ {id})

\* A POST /save-full-json/ request for extraction_id arrives.
ReceiveSave(extraction_id) ==
    /\ CountPending(pending_saves, SaveIds) < MaxPending
    /\ pending_saves' = [pending_saves EXCEPT ![extraction_id] = @ + 1]
    /\ UNCHANGED <<service_vars, extracted_data, accuracy_metrics, client_vars>>

\* The event loop runs the handler of one waiting request.
HandleSave(extraction_id, first_name, last_name, write_ok) ==
    /\ pending_saves[extraction_id] > 0
    /\ LET request == [extraction_id |-> extraction_id, first_name |-> first_name,
                       last_name |-> last_name]
           out == save_try_block(extraction_data_storage, saved_resumes, request, write_ok)
       IN /\ BagCardinality(out.saved) <= MaxSaved
          /\ extraction_data_storage' = out.storage
          /\ saved_resumes' = out.saved
          /\ response' = http_response("save", extraction_id, except_exception(out.result), {})
    /\ pending_saves' = [pending_saves EXCEPT ![extraction_id] = @ - 1]
    /\ UNCHANGED <<temp_files, open_handles, uuid_counter, extracted_data, accuracy_metrics,
                   client_vars>>

NextRace ==
    \/ \E reply \in {NoReply, [failed |-> FALSE, content |-> <<"{jane}">>]} :
          ExtractResumeFile(CvPdf, TextDocument, reply)
    \/ \E extraction_id \in SaveIds : ReceiveSave(extraction_id)
    \/ \E extraction_id \in SaveIds, first_name \in FirstNames, last_name \in LastNames,
          write_ok \in BOOLEAN :
          HandleSave(extraction_id, first_name, last_name, write_ok)

SpecRace == Init /\ [][NextRace]_vars

\* C16 as stated: of two save requests for one extraction_id that are in
\* flight together both can succeed: once the first has succeeded and written
\* its artifact, the handler of the waiting one can still succeed.
C16_DuplicateSaveReachable ==
    \A id \in SaveIds :
        (/\ pending_saves[id] > 0
         /\ response.op = "save" /\ response.status = 200 /\ response.req = id) =>
            ENABLED (/\ \E first_name \in FirstNames, last_name \in LastNames,
                           write_ok \in BOOLEAN :
                           HandleSave(id, first_name, last_name, write_ok)
                     /\ response'.status = 200)

\* C16 as amended: save requests for one extraction_id that are in flight
\* together are handled one at a time; the handler that runs while the entry
\* is in storage (and whose write succeeds) removes it and writes the one
\* artifact of the id, every other one is answered with an error and changes
\* nothing: no second artifact is written.
C16_SavesSerialised ==
    [][\A id \in SaveIds :
          pending_saves'[id] < pending_saves[id] =>
              /\ response'.req = id
              /\ ArtifactCount(saved_resumes', id) <= 1
              /\ IF response'.status = 200
                 THEN /\ id \in DOMAIN extraction_data_storage
                      /\ id \notin DOMAIN extraction_data_storage'
                      /\ ArtifactCount(saved_resumes, id) = 0
                      /\ ArtifactCount(saved_resumes', id) = 1
                 ELSE /\ saved_resumes' = saved_resumes
                      /\ extraction_data_storage' = extraction_data_storage]_vars

\* C16 witness: two save requests for the same stored id were in flight
\* together; one has been handled and has succeeded, the other is waiting.
C16_Witness ==
    \E id \in SaveIds :
        /\ pending_saves[id] = 1
        /\ response.op = "save" /\ response.status = 200 /\ response.req = id
        /\ ArtifactCount(saved_resumes, id) = 1

-----------------------------------------------------------------------------
\* Uploads that run side by side.  Every upload is a document with text under
\* a .pdf or .docx name, so a request fails at text extraction only if the
\* file at its temp path is not the one it wrote.

\* Lines 198-205, with up to `limit` requests suspended together.
BeginExtractWithin(filename, limit) ==
    /\ InFlight < limit
    /\ temp_files' = temp_files \cup {filename}
    /\ open_handles' = [open_handles EXCEPT ![filename].linked = @ + 1]
    /\ UNCHANGED <<extraction_data_storage, saved_resumes, uuid_counter, response,
                   extracted_data, accuracy_metrics, client_vars, pending_saves>>

\* What the request reads back from its temp path.
ReadBack(linked) == IF linked THEN TextDocument ELSE Unreadable

NextUpload ==
    \/ \E filename \in ClientFileNames : BeginExtractWithin(filename, MaxUploads)
    \/ \E filename \in ClientFileNames, linked \in BOOLEAN,
          reply \in {NoReply, [failed |-> FALSE, content |-> <<"{jane}">>]} :
          FinishExtract(filename, linked, ReadBack(linked), reply)

SpecUpload == Init /\ [][NextUpload]_vars

\* C17: requests that upload under one file name share the temp path.  The
\* request that finishes first removes the file, and a request still
\* suspended on that path then fails at text extraction although its
\* document is valid, storing nothing; a request whose file is still at the
\* path reads its own document and reaches the structuring step.
C17_SharedTempPath ==
    [][\A filename \in ClientFileNames, reply \in Replies :
          /\ FinishExtract(filename, FALSE, Unreadable, reply) =>
                /\ response'.status = 500
                /\ response'.detail \in {"PDF text extraction failed",
                                         "DOCX text extraction failed"}
                /\ "process_with_ai" \notin response'.calls
                /\ extraction_data_storage' = extraction_data_storage
          /\ FinishExtract(filename, TRUE, TextDocument, reply) =>
                /\ "process_with_ai" \in response'.calls
                /\ filename \notin temp_files'
                /\ open_handles'[filename].linked = 0
                /\ open_handles'[filename].stale
                      = open_handles[filename].linked + open_handles[filename].stale - 1]_vars

\* C17 witness: a request with a valid document has failed at text
\* extraction after another request of the same file name had succeeded.
C17_Witness ==
    /\ response.op = "extract"
    /\ response.status = 500
    /\ response.detail = "PDF text extraction failed"
    /\ response.req = CvPdf
    /\ extraction_data_storage # << >>

-----------------------------------------------------------------------------
\* Claims about an extraction and its later save, checked under Spec.

\* C19: the extraction_id of a 200 answer to an extract request is a key of
\* storage when the answer is sent, and the view and the accuracy metrics of
\* the answer are those of the record stored under it; a save of an id that is
\* in storage, whose write does not fail, is answered 200, writes that record
\* as original_extraction and removes the entry.
C19_ReturnedIdSavable ==
    [][/\ (/\ CountHandles(open_handles', FileNames) < CountHandles(open_handles, FileNames)
           /\ response'.status = 200) =>
             LET id == response'.body[1].extraction_id IN
             /\ id \in DOMAIN extraction_data_storage'
             /\ id \notin DOMAIN extraction_data_storage
             /\ response'.body[1].accuracy_metrics
                   = calculate_extraction_accuracy(extraction_data_storage'[id])
             /\ response'.body
                   = build_view(extraction_data_storage'[id], id,
                                response'.body[1].accuracy_metrics).value
       /\ \A id \in DOMAIN extraction_data_storage, first_name \in FirstNames,
             last_name \in LastNames :
             SaveFullJson(id, first_name, last_name, TRUE) =>
                /\ response'.status = 200
                /\ id \notin DOMAIN extraction_data_storage'
                /\ saved_resumes' = saved_resumes (+) SetToBag({
                      [original_extraction |-> extraction_data_storage[id],
                       confirmation_details |-> [first_name |-> first_name,
                                                 last_name |-> last_name]]})]_vars

\* C19 witness: the id returned by an extract request has been saved, and
\* the artifact holds the record of that extraction.
C19_Witness ==
    /\ response.op = "save"
    /\ response.status = 200
    /\ response.req = Uuid(1)
    /\ \E a \in BagToSet(saved_resumes) :
          /\ IdOf(a.original_extraction) = Uuid(1)
          /\ a.original_extraction.d["full_name"] = JStr(<<"Jane", " ", "Doe">>)
    /\ BagCardinality(saved_resumes) = 1

\* C20: a save that finds its id in storage and whose write fails is
\* answered 500 and leaves storage and the artifacts as they were; while the
\* entry is there after such a failure, a save of the same id can succeed.
C20_WriteFailureKeepsEntry ==
    /\ [][\A id \in DOMAIN extraction_data_storage, first_name \in FirstNames,
             last_name \in LastNames :
             SaveFullJson(id, first_name, last_name, FALSE) =>
                /\ response'.status = 500
                /\ response'.req = id
                /\ extraction_data_storage' = extraction_data_storage
                /\ saved_resumes' = saved_resumes]_vars
    /\ []((/\ response.op = "save" /\ response.status = 500
           /\ response.req \in DOMAIN extraction_data_storage
           /\ BagCardinality(saved_resumes) < MaxSaved) =>
             ENABLED (/\ \E first_name \in FirstNames, last_name \in LastNames :
                            SaveFullJson(response.req, first_name, last_name, TRUE)
                      /\ response'.status = 200
                      /\ ArtifactCount(saved_resumes', response.req) = 1))

\* C20 witness: a save has failed at the write and its entry is still in
\* storage.
C20_Witness ==
    /\ response.op = "save"
    /\ response.status = 500
    /\ response.req \in DOMAIN extraction_data_storage
    /\ ArtifactCount(saved_resumes, response.req) = 0

-----------------------------------------------------------------------------
\* C21: a submit whose /save-full-json/ request is answered 200 clears
\* extraction_id, extraction_data and autofill_data, whether or not the local
\* file is written; a submit whose request is answered with an error leaves
\* the three as they are; and a submit in a session without an extraction_id
\* sends no request and writes no local file.  Checked under SpecClient.
C21_SessionReset ==
    [][/\ saved_resumes' # saved_resumes =>
             /\ response'.op = "save" /\ response'.status = 200
             /\ page'.message \in {"Profile saved successfully!", "Error saving JSON"}
             /\ session_state'.extraction_id = None
             /\ session_state'.extraction_data = None
             /\ session_state'.autofill_data = EmptyDict
       /\ page'.message \in {"Profile saved successfully!", "Error saving JSON"} =>
             /\ saved_resumes' # saved_resumes
             /\ (resumes' # resumes) = (page'.message = "Profile saved successfully!")
       /\ page'.message = "Save failed" =>
             /\ response'.op = "save" /\ response'.status # 200
             /\ response'.req = session_state.extraction_id[1]
             /\ session_state' = session_state
             /\ resumes' = resumes
       /\ (/\ session_state.extraction_id = None
           /\ \E blank \in BlankChoices, keep \in BOOLEAN, write_ok \in BOOLEAN,
                 local_ok \in BOOLEAN : SubmitForm(blank, keep, write_ok, local_ok)) =>
             /\ UNCHANGED <<service_vars, resumes, session_state>>
             /\ page'.message \in {"No extraction ID found",
                                   "Please fill all required fields (marked with *)"}]_vars

\* C21 witness: the service saved the extraction, the local write failed, the
\* session was cleared all the same, and a further complete submit has sent
\* nothing.
C21_Witness ==
    /\ page.message = "No extraction ID found"
    /\ session_state = NoSession
    /\ BagCardinality(saved_resumes) = 1
    /\ resumes = EmptyBag
    /\ response.op = "save" /\ response.status = 200

====
